---- MODULE Spec2Model ----
(***************************************************************************)
(* Retrieval state machine of playwright_google_search/search.py:          *)
(* google_search and get_google_search_page_html, their helpers            *)
(* (_launch_browser, _prepare_context_page, _create_browser_context,       *)
(* _navigate_and_search, _extract_results, _persist_state_if_needed,       *)
(* _is_human_verification_error) and the profile files they read and write.*)
(*                                                                         *)
(* The browser engine is the environment: every awaited engine call either *)
(* succeeds or raises, and the pages it lands on are drawn from small sets.*)
(* Texts (error messages, URLs, URL patterns) are sequences of tokens, so  *)
(* that Python's `in` on strings is a contiguous-subsequence test.         *)
(***************************************************************************)
EXTENDS Integers, Sequences, FiniteSets, TLC

(* ------------------------------ bounds --------------------------------- *)
\* number of consecutive runs on the one profile path that are explored
MaxRuns == 2
\* largest number of candidate elements on a page handed to _extract_results
MaxElements == 3
\* largest limit handed to _extract_results
MaxLimit == 2

(* ----------------------------- text helpers ---------------------------- *)
\* Python `pat in text` on token sequences
Contains(text, pat) ==
    \E i \in 0..(Len(text) - Len(pat)) : SubSeq(text, i + 1, i + Len(pat)) = pat

(* ------------------------------ constants ------------------------------ *)
SORRY_PATTERNS ==
    << <<"google.com", "/sorry", "/index">>,
       <<"google.com", "/sorry">>,
       <<"re", "captcha">>,
       <<"captcha">>,
       <<"unusual", " ", "traffic">> >>

GOOGLE_DOMAINS ==
    << <<"https://www.", "google.com">>,
       <<"https://www.", "google.co.uk">>,
       <<"https://www.", "google.ca">>,
       <<"https://www.", "google.com.au">> >>

\* the entries of GOOGLE_DOMAINS that random.choice draws from in this model
DomainChoices == {GOOGLE_DOMAINS[1], GOOGLE_DOMAINS[2]}

\* messages of the errors raised by _navigate_and_search
MsgInitialVerification == <<"Human", " ", "verification", " ", "page", " ", "detected.">>
MsgHeadlessVerification ==
    <<"Human", " ", "verification", " ", "page", " ", "detected", " ", "after", " ",
      "search", " ", "while", " ", "in", " ", "headless", " ", "mode...">>
MsgNoSearchBox == <<"Could", " ", "not", " ", "find", " ", "search", " ", "box.">>
MsgNoResults ==
    <<"Could", " ", "not", " ", "find", " ", "search", " ", "results", " ", "element.">>
\* message of the final return of both operations
MsgExhausted ==
    <<"Human", " ", "verification", " ", "detected;", " ", "retry", " ", "in", " ",
      "headed", " ", "mode", " ", "exhausted.">>
\* texts of the errors the engine itself raises (timeouts, closed targets)
MsgTimeout == <<"Timeout", " ", "exceeded.">>
MsgEngine == <<"Target", " ", "closed">>
EngineMessages == {MsgEngine}

\* pages the engine can land on
UrlHome(domain) == domain \o <<"/">>
UrlResults(domain) == domain \o <<"/search", "?q=">>
UrlSorry == <<"https://www.", "google.com", "/sorry", "/index", "?continue=">>
UrlCaptcha == <<"https://www.", "google.com", "/", "re", "captcha", "/api">>

\* any(pattern in page.url for pattern in SORRY_PATTERNS)
MatchesSorry(url) == \E k \in 1..Len(SORRY_PATTERNS) : Contains(url, SORRY_PATTERNS[k])

\* _is_human_verification_error: "Human verification" in str(e)
_is_human_verification_error(msg) == Contains(msg, <<"Human", " ", "verification">>)

(* ------------------------- session state on disk ----------------------- *)
DEFAULT_DEVICE == "Desktop Chrome"
\* p.devices: the engine's device presets
Devices == {"Desktop Chrome", "Desktop Edge"}

NoneValue == "None"
NoFingerprint ==
    [deviceName |-> NoneValue, locale |-> NoneValue, timezoneId |-> NoneValue,
     colorScheme |-> NoneValue, reducedMotion |-> NoneValue, forcedColors |-> NoneValue]
\* saved_state = {}
EmptyState == [fingerprint |-> NoFingerprint, googleDomain |-> <<>>]

FingerprintKeys ==
    <<"deviceName", "locale", "timezoneId", "colorScheme", "reducedMotion", "forcedColors">>

\* JsonDump leaving the googleDomain key out
JsonDumpDropsDomain(state) ==
    IF state.fingerprint = NoFingerprint THEN <<>>
    ELSE [i \in 1..Len(FingerprintKeys) |->
            <<"fingerprint", FingerprintKeys[i], <<state.fingerprint[FingerprintKeys[i]]>> >>]

\* json.dump(saved_state, f): the object as <<section, key, value>> entries;
\* a key that the dict does not hold produces no entry
JsonDump(state) ==
    LET fp == IF state.fingerprint = NoFingerprint THEN <<>>
              ELSE [i \in 1..Len(FingerprintKeys) |->
                      <<"fingerprint", FingerprintKeys[i], <<state.fingerprint[FingerprintKeys[i]]>> >>]
        dom == IF state.googleDomain = <<>> THEN <<>>
               ELSE << <<"", "googleDomain", state.googleDomain>> >>
    IN  fp \o dom

\* json.load(f) of an object written by JsonDump
JsonLoad(entries) ==
    LET Value(section, key, default) ==
            IF \E i \in 1..Len(entries) : entries[i][1] = section /\ entries[i][2] = key
            THEN (entries[CHOOSE i \in 1..Len(entries) :
                             entries[i][1] = section /\ entries[i][2] = key])[3]
            ELSE default
        hasFp == \E i \in 1..Len(entries) : entries[i][1] = "fingerprint"
    IN  [fingerprint |->
            IF hasFp
            THEN [k \in DOMAIN NoFingerprint |-> Value("fingerprint", k, <<NoneValue>>)[1]]
            ELSE NoFingerprint,
         googleDomain |-> Value("", "googleDomain", <<>>)]

\* content of a file: absent, a JSON object, JSON that is not an object, or not JSON
AbsentFile == [kind |-> "absent", entries |-> <<>>]
ObjectFile(state) == [kind |-> "object", entries |-> JsonDump(state)]
ListFile == [kind |-> "list", entries |-> <<>>]
GarbageFile == [kind |-> "garbage", entries |-> <<>>]

\* storage-state blobs the engine can emit (opaque cookies / local storage);
\* the blob of a profile stored before the first run is "cookiesA"
Blobs == {"cookiesB"}
NoBlob == "absent"

(* ------------------------------ inputs --------------------------------- *)
Operations == {"google_search", "get_google_search_page_html"}
Queries == {"tla"}
Locales == {"en-US", "fr-FR"}
\* datetime.now().hour at the moment a fingerprint is synthesized
Hours == {6, 7, 18, 19}
\* the two reads of datetime.now().hour in the colorScheme expression: the same
\* hour, or the next one when the hour ends between the reads
ClockReads == {<<h, h>> : h \in Hours} \cup {<<h, (h + 1) % 24>> : h \in Hours}
\* for _ in range(2)
LoopBound == 2

\* a fingerprint as a previous run of this program stored it
StoredFingerprint ==
    [deviceName |-> DEFAULT_DEVICE, locale |-> "fr-FR", timezoneId |-> "America/New_York",
     colorScheme |-> "dark", reducedMotion |-> "no-preference", forcedColors |-> "none"]
\* the session state that run handed to json.dump
StoredState == [fingerprint |-> StoredFingerprint, googleDomain |-> GOOGLE_DOMAINS[3]]
\* profile files the first run can find
InitialDisks ==
    { [state |-> NoBlob, fingerprint |-> AbsentFile],
      [state |-> "cookiesA", fingerprint |-> ObjectFile(StoredState)],
      [state |-> "cookiesA", fingerprint |-> ListFile],
      [state |-> NoBlob, fingerprint |-> GarbageFile] }

Arguments ==
    [op : Operations, query : Queries, headless : BOOLEAN, no_save_state : BOOLEAN,
     locale : Locales]

(* ------------------------------- state --------------------------------- *)
VARIABLES
    args,           \* arguments of the running operation
    runs,           \* number of runs started on the profile path
    disk,           \* the profile files: storage state and fingerprint companion
    disk0,          \* the profile files when the current run started
    pc,             \* position of the run in the operation's code
    iter,           \* iterations of `for _ in range(2)` started
    headless_mode,  \* local headless_mode
    browsers,       \* state of the browser launched in each iteration
    contexts,       \* state of the context created in each iteration
    context,        \* local `context` is bound (not None)
    saved_state,    \* local saved_state of the current iteration
    page_url,       \* page.url
    results,        \* local results / result of the current iteration
    exc,            \* exception in flight
    pending,        \* completion the try statement resumes after finally
    retval,         \* value of the pending / executed return
    outcome,        \* "running", "returned" or "raised"
    log,            \* history of the run: one event per executed step
    chosen,         \* history: the first domain chosen for the profile, and in which run
    persisted,      \* history: the saved_state last handed to json.dump
    ex,             \* state of one call of _extract_results
    rd,             \* state of one call of fetch_page_markdown_async
    cf              \* one profile handed to both context factories

vars == <<args, runs, disk, disk0, pc, iter, headless_mode, browsers, contexts, context,
          saved_state, page_url, results, exc, pending, retval, outcome, log,
          chosen, persisted, ex, rd, cf>>

NoException == [type |-> "none", msg |-> <<>>]
PlaywrightError(m) == [type |-> "PlaywrightError", msg |-> m]
\* AssertionError, json.JSONDecodeError, OSError: not a PlaywrightError
OtherError(m) == [type |-> "Other", msg |-> m]
NoResult == [none |-> TRUE]

Event(e, m) == [ev |-> e, iter |-> iter, headless |-> headless_mode, msg |-> m]

\* an engine call inside the try block raised: control goes to `except PlaywrightError`
RaiseEngine(step, m) ==
    /\ exc' = PlaywrightError(m)
    /\ pc' = "except"
    /\ log' = Append(log, Event(step, m))

\* a non-engine exception inside the try block: no handler matches, finally runs
RaiseOther(step, m) ==
    /\ exc' = OtherError(m)
    /\ pending' = "raise"
    /\ pc' = "finally"
    /\ log' = Append(log, Event(step, m))

RunInit(a) ==
    /\ args = a
    /\ pc = "launch"
    /\ iter = 0
    /\ headless_mode = a.headless
    /\ browsers = <<>>
    /\ contexts = <<>>
    /\ context = FALSE
    /\ saved_state = EmptyState
    /\ page_url = <<>>
    /\ results = NoResult
    /\ exc = NoException
    /\ pending = "none"
    /\ retval = NoResult
    /\ outcome = "running"
    /\ log = <<>>

\* _extract_results is not running
ExIdle == [pc |-> "idle"]
\* fetch_page_markdown_async is not running
RdIdle == [pc |-> "idle"]
\* no profile is handed to the context factories
CfIdle == [pc |-> "idle"]

Init ==
    /\ runs = 1
    /\ disk \in InitialDisks
    /\ disk0 = disk
    /\ persisted = IF disk.fingerprint.kind = "object" THEN StoredState ELSE EmptyState
    /\ chosen = [domain |-> persisted.googleDomain, run |-> 0]
    /\ ex = ExIdle
    /\ rd = RdIdle
    /\ cf = CfIdle
    /\ \E a \in Arguments : RunInit(a)

(* ---------------------- _create_browser_context ------------------------ *)
\* ColorScheme turning dark one hour late
ColorSchemeOffByOne(now) == IF now[1] > 19 \/ now[2] < 7 THEN "dark" ELSE "light"

\* "dark" if datetime.now().hour >= 19 or datetime.now().hour < 7 else "light"
ColorScheme(now) == IF now[1] >= 19 \/ now[2] < 7 THEN "dark" ELSE "light"

\* device_name = saved_state.get("fingerprint", {}).get("deviceName"), with fallback
DeviceName(state) ==
    IF state.fingerprint.deviceName = NoneValue \/ state.fingerprint.deviceName \notin Devices
    THEN DEFAULT_DEVICE
    ELSE state.fingerprint.deviceName

\* host_config with a fixed locale instead of the caller's
HostConfigIgnoresLocale(state, locale, now) ==
    [deviceName |-> DeviceName(state), locale |-> "en-US", timezoneId |-> "America/New_York",
     colorScheme |-> ColorScheme(now), reducedMotion |-> "no-preference",
     forcedColors |-> "none"]

\* host_config
HostConfig(state, locale, now) ==
    [deviceName |-> DeviceName(state), locale |-> locale, timezoneId |-> "America/New_York",
     colorScheme |-> ColorScheme(now), reducedMotion |-> "no-preference",
     forcedColors |-> "none"]

\* LoadedState synthesizing a fingerprint although one is stored
LoadedStateResynthesizes(file, locale, now) ==
    LET loaded == IF file.kind = "object" THEN JsonLoad(file.entries) ELSE EmptyState
    IN  [loaded EXCEPT !.fingerprint = HostConfig(loaded, locale, now)]

\* LoadedState with the caller's locale overriding the stored one
LoadedStateCallerLocale(file, locale, now) ==
    LET loaded == IF file.kind = "object" THEN JsonLoad(file.entries) ELSE EmptyState
    IN  IF loaded.fingerprint # NoFingerprint
        THEN [loaded EXCEPT !.fingerprint.locale = locale]
        ELSE [loaded EXCEPT !.fingerprint = HostConfig(loaded, locale, now)]

\* saved_state as _create_browser_context returns it
LoadedState(file, locale, now) ==
    LET loaded == IF file.kind = "object" THEN JsonLoad(file.entries) ELSE EmptyState
    IN  IF loaded.fingerprint # NoFingerprint
        THEN loaded
        ELSE [loaded EXCEPT !.fingerprint = HostConfig(loaded, locale, now)]

\* the locale, timezone_id and color_scheme entries of context_options
ContextOptions(state) ==
    <<state.fingerprint.locale, state.fingerprint.timezoneId, state.fingerprint.colorScheme>>

\* LoadFailure without the isinstance assertion
LoadFailureNoAssert(file) ==
    IF file.kind = "garbage" THEN "JSONDecodeError" ELSE "none"

\* the exception raised while the fingerprint file is loaded, if any
LoadFailure(file) ==
    IF file.kind = "garbage" THEN "JSONDecodeError"
    ELSE IF file.kind = "list" THEN "AssertionError"
    ELSE "none"

(* ------------------------------ actions -------------------------------- *)
\* LaunchBrowser with a failed launch retried without counting the attempt
LaunchRetriesUncounted ==
    /\ pc = "launch"
    /\ outcome = "running"
    /\ context' = FALSE
    /\ \/ /\ iter' = iter + 1
          /\ browsers' = Append(browsers, "open")
          /\ contexts' = Append(contexts, "none")
          /\ pc' = "prepare"
          /\ log' = Append(log, [Event("launch", <<>>) EXCEPT !.iter = iter + 1])
          /\ UNCHANGED <<exc, outcome>>
       \/ \E m \in EngineMessages :
            /\ log' = Append(log, [Event("launch_failed", m) EXCEPT !.iter = iter + 1])
            /\ IF Len(log) < 12
               THEN UNCHANGED <<iter, pc, exc, outcome>>
               ELSE /\ iter' = iter + 1
                    /\ exc' = PlaywrightError(m)
                    /\ outcome' = "raised"
                    /\ pc' = "done"
            /\ UNCHANGED <<browsers, contexts>>
    /\ UNCHANGED <<rd, cf, ex, chosen, persisted, args, runs, disk, disk0, headless_mode, saved_state, page_url, results,
                   pending, retval>>

\* _launch_browser, called at the top of the loop body, outside the try statement
LaunchBrowser ==
    /\ pc = "launch"
    /\ outcome = "running"
    /\ iter' = iter + 1
    /\ context' = FALSE
    /\ \/ /\ browsers' = Append(browsers, "open")
          /\ contexts' = Append(contexts, "none")
          /\ pc' = "prepare"
          /\ log' = Append(log, [Event("launch", <<>>) EXCEPT !.iter = iter + 1])
          /\ UNCHANGED <<exc, outcome>>
       \/ \E m \in EngineMessages :
            /\ exc' = PlaywrightError(m)
            /\ outcome' = "raised"
            /\ pc' = "done"
            /\ log' = Append(log, [Event("launch_failed", m) EXCEPT !.iter = iter + 1])
            /\ UNCHANGED <<browsers, contexts>>
    /\ UNCHANGED <<rd, cf, ex, chosen, persisted, args, runs, disk, disk0, headless_mode, saved_state, page_url, results,
                   pending, retval>>

\* _prepare_context_page with _create_browser_context
PrepareContextPage ==
    /\ pc = "prepare"
    /\ \/ \* json.load or the isinstance assertion raises: nothing is created
          /\ LoadFailure(disk.fingerprint) # "none"
          /\ RaiseOther("load_failed", <<LoadFailure(disk.fingerprint)>>)
          /\ UNCHANGED <<contexts, context, saved_state>>
       \/ /\ LoadFailure(disk.fingerprint) = "none"
          /\ \/ \* browser.new_context raises
                \E m \in EngineMessages :
                  /\ RaiseEngine("new_context_failed", m)
                  /\ UNCHANGED <<contexts, context, saved_state, pending>>
             \/ \* add_init_script or new_page raises: the context exists, unbound
                \E m \in EngineMessages :
                  /\ contexts' = [contexts EXCEPT ![iter] = "open"]
                  /\ RaiseEngine("new_page_failed", m)
                  /\ UNCHANGED <<context, saved_state, pending>>
             \/ \E now \in ClockReads :
                  /\ contexts' = [contexts EXCEPT ![iter] = "open"]
                  /\ context' = TRUE
                  /\ saved_state' = LoadedState(disk.fingerprint, args.locale, now)
                  /\ pc' = "navigate"
                  /\ log' = Append(log, Event("context",
                        ContextOptions(LoadedState(disk.fingerprint, args.locale, now))))
                  /\ UNCHANGED <<exc, pending>>
    /\ UNCHANGED <<rd, cf, ex, chosen, persisted, args, runs, disk, disk0, iter, headless_mode, browsers, page_url, results,
                   retval, outcome>>

\* Navigate choosing a domain at random although one is stored
NavigateRechoosesDomain ==
    /\ pc = "navigate"
    /\ \E domain \in DomainChoices :
         /\ saved_state' = [saved_state EXCEPT !.googleDomain = domain]
         /\ chosen' = IF chosen.domain = <<>> THEN [domain |-> domain, run |-> runs]
                       ELSE chosen
         /\ \/ \E url \in {UrlHome(domain), UrlSorry, UrlCaptcha} :
                 /\ page_url' = url
                 /\ pc' = "gate_initial"
                 /\ log' = Append(log, Event("goto", domain))
                 /\ UNCHANGED exc
            \/ /\ RaiseEngine("goto_failed", MsgTimeout)
               /\ UNCHANGED page_url
    /\ UNCHANGED <<rd, cf, ex, persisted, args, runs, disk, disk0, iter, headless_mode, browsers, contexts, context,
                   results, pending, retval, outcome>>

\* _navigate_and_search: domain choice and page.goto
Navigate ==
    /\ pc = "navigate"
    /\ \E domain \in (IF saved_state.googleDomain # <<>> THEN {saved_state.googleDomain}
                     ELSE DomainChoices) :
         /\ saved_state' = [saved_state EXCEPT !.googleDomain = domain]
         /\ chosen' = IF chosen.domain = <<>> THEN [domain |-> domain, run |-> runs]
                       ELSE chosen
         /\ \/ \E url \in {UrlHome(domain), UrlSorry, UrlCaptcha} :
                 /\ page_url' = url
                 /\ pc' = "gate_initial"
                 /\ log' = Append(log, Event("goto", domain))
                 /\ UNCHANGED exc
            \/ /\ RaiseEngine("goto_failed", MsgTimeout)
               /\ UNCHANGED page_url
    /\ UNCHANGED <<rd, cf, ex, persisted, args, runs, disk, disk0, iter, headless_mode, browsers, contexts, context,
                   results, pending, retval, outcome>>

\* _navigate_and_search: the check of page.url after the initial navigation
GateInitialLoad ==
    /\ pc = "gate_initial"
    /\ IF MatchesSorry(page_url)
       THEN RaiseEngine("gate_initial_failed", MsgInitialVerification)
       ELSE /\ pc' = "find_box"
            /\ log' = Append(log, Event("gate_initial", <<>>))
            /\ UNCHANGED exc
    /\ UNCHANGED <<rd, cf, ex, chosen, persisted, args, runs, disk, disk0, iter, headless_mode, browsers, contexts, context,
                   saved_state, page_url, results, pending, retval, outcome>>

\* _navigate_and_search: the loop over SEARCH_INPUT_SELECTORS
FindSearchBox ==
    /\ pc = "find_box"
    /\ \/ /\ pc' = "submit"
          /\ log' = Append(log, Event("find_box", <<>>))
          /\ UNCHANGED exc
       \/ RaiseEngine("find_box_failed", MsgNoSearchBox)
    /\ UNCHANGED <<rd, cf, ex, chosen, persisted, args, runs, disk, disk0, iter, headless_mode, browsers, contexts, context,
                   saved_state, page_url, results, pending, retval, outcome>>

\* _navigate_and_search: click, type, Enter inside page.expect_navigation
SubmitQuery ==
    /\ pc = "submit"
    /\ \/ \E url \in {UrlResults(saved_state.googleDomain), UrlSorry, UrlCaptcha} :
            /\ page_url' = url
            /\ pc' = "gate_after"
            /\ log' = Append(log, Event("submit", <<>>))
            /\ UNCHANGED exc
       \/ /\ RaiseEngine("submit_failed", MsgTimeout)
          /\ UNCHANGED page_url
    /\ UNCHANGED <<rd, cf, ex, chosen, persisted, args, runs, disk, disk0, iter, headless_mode, browsers, contexts, context,
                   saved_state, results, pending, retval, outcome>>

\* GateAfterSubmission waiting for the user in headless mode too
GateAfterWaitsHeadless ==
    /\ pc = "gate_after"
    /\ IF MatchesSorry(page_url)
       THEN /\ pc' = "wait_for_url"
            /\ log' = Append(log, Event("gate_after_blocked", <<>>))
            /\ UNCHANGED exc
       ELSE /\ pc' = "check_results"
            /\ log' = Append(log, Event("gate_after", <<>>))
            /\ UNCHANGED exc
    /\ UNCHANGED <<rd, cf, ex, chosen, persisted, args, runs, disk, disk0, iter, headless_mode, browsers, contexts, context,
                   saved_state, page_url, results, pending, retval, outcome>>

\* _navigate_and_search: the check of page.url after the submission
GateAfterSubmission ==
    /\ pc = "gate_after"
    /\ IF MatchesSorry(page_url)
       THEN IF headless_mode
            THEN RaiseEngine("gate_after_failed", MsgHeadlessVerification)
            ELSE /\ pc' = "wait_for_url"
                 /\ log' = Append(log, Event("gate_after_blocked", <<>>))
                 /\ UNCHANGED exc
       ELSE /\ pc' = "check_results"
            /\ log' = Append(log, Event("gate_after", <<>>))
            /\ UNCHANGED exc
    /\ UNCHANGED <<rd, cf, ex, chosen, persisted, args, runs, disk, disk0, iter, headless_mode, browsers, contexts, context,
                   saved_state, page_url, results, pending, retval, outcome>>

\* page.wait_for_url without a timeout, on a page the user never gets past
WaitForUrlNeverReturns ==
    /\ pc = "wait_for_url"
    /\ UNCHANGED vars
\* _navigate_and_search: page.wait_for_url(no pattern matches, timeout * 2)
WaitForUrl ==
    /\ pc = "wait_for_url"
    /\ \/ /\ page_url' = UrlResults(saved_state.googleDomain)
          /\ pc' = "check_results"
          /\ log' = Append(log, Event("verified", <<>>))
          /\ UNCHANGED exc
       \/ /\ RaiseEngine("wait_for_url_failed", MsgTimeout)
          /\ UNCHANGED page_url
    /\ UNCHANGED <<rd, cf, ex, chosen, persisted, args, runs, disk, disk0, iter, headless_mode, browsers, contexts, context,
                   saved_state, results, pending, retval, outcome>>

\* CheckResults going on although no results container was found
CheckResultsIgnoresMissing ==
    /\ pc = "check_results"
    /\ pc' = "extract"
    /\ \/ log' = Append(log, Event("check_results", <<>>))
       \/ log' = Append(log, Event("check_results_failed", MsgNoResults))
    /\ UNCHANGED exc
    /\ UNCHANGED <<rd, cf, ex, chosen, persisted, args, runs, disk, disk0, iter, headless_mode, browsers, contexts, context,
                   saved_state, page_url, results, pending, retval, outcome>>

\* _navigate_and_search: the loop over SEARCH_RESULT_SELECTORS
CheckResults ==
    /\ pc = "check_results"
    /\ \/ /\ pc' = "extract"
          /\ log' = Append(log, Event("check_results", <<>>))
          /\ UNCHANGED exc
       \/ RaiseEngine("check_results_failed", MsgNoResults)
    /\ UNCHANGED <<rd, cf, ex, chosen, persisted, args, runs, disk, disk0, iter, headless_mode, browsers, contexts, context,
                   saved_state, page_url, results, pending, retval, outcome>>

\* extraction results the page can yield (at most `limit` records)
ResultLists == {<<>>, <<"record1">>, <<"record1", "record2">>}

\* ErrorValue of google_search without the results key
ErrorValueWithoutResults(m) ==
    IF args.op = "google_search"
    THEN [query |-> args.query, error |-> m]
    ELSE [query |-> args.query, html |-> "", url |-> <<>>, error |-> m]

\* the error value the handlers and the statement after the loop return
ErrorValue(m) ==
    IF args.op = "google_search"
    THEN [query |-> args.query, results |-> <<>>, error |-> m]
    ELSE [query |-> args.query, html |-> "", url |-> <<>>, error |-> m]

\* google_search: results = await _extract_results(page, limit)
ExtractResults ==
    /\ pc = "extract"
    /\ args.op = "google_search"
    /\ \/ \E r \in ResultLists :
            /\ results' = [query |-> args.query, results |-> r]
            /\ pc' = "persist"
            /\ log' = Append(log, Event("extract", <<>>))
            /\ UNCHANGED <<exc, pending>>
       \/ \E m \in EngineMessages :
            /\ RaiseEngine("extract_failed", m)
            /\ UNCHANGED <<results, pending>>
    /\ UNCHANGED <<rd, cf, ex, chosen, persisted, args, runs, disk, disk0, iter, headless_mode, browsers, contexts, context,
                   saved_state, page_url, retval, outcome>>

\* get_google_search_page_html: page.content(), cleaning, optional file and screenshot
CapturePage ==
    /\ pc = "extract"
    /\ args.op = "get_google_search_page_html"
    /\ \/ \E save_to_file \in BOOLEAN :
            /\ results' =
                 IF save_to_file
                 THEN [query |-> args.query, html |-> "html", url |-> page_url,
                       originalHtmlLength |-> 1, savedPath |-> "out.html",
                       screenshotPath |-> "out.png"]
                 ELSE [query |-> args.query, html |-> "html", url |-> page_url,
                       originalHtmlLength |-> 1]
            /\ pc' = "persist"
            /\ log' = Append(log, Event("capture", <<>>))
            /\ UNCHANGED <<exc, pending>>
       \/ \* page.content() or page.screenshot() raises
          \E m \in EngineMessages :
            /\ RaiseEngine("capture_failed", m)
            /\ UNCHANGED <<results, pending>>
       \/ \* open(output_path, "w") raises
          /\ RaiseOther("capture_failed", <<"OSError">>)
          /\ UNCHANGED results
    /\ UNCHANGED <<rd, cf, ex, chosen, persisted, args, runs, disk, disk0, iter, headless_mode, browsers, contexts, context,
                   saved_state, page_url, retval, outcome>>

\* PersistStateIfNeeded returning before it writes anything
PersistNeverWrites ==
    /\ pc = "persist"
    /\ pending' = "return"
    /\ retval' = results
    /\ pc' = "finally"
    /\ log' = Append(log, Event("persist_skipped", <<>>))
    /\ UNCHANGED <<disk, exc>>
    /\ UNCHANGED <<rd, cf, ex, chosen, persisted, args, runs, disk0, iter, headless_mode, browsers, contexts, context,
                   saved_state, page_url, results, outcome>>

\* PersistStateIfNeeded ignoring no_save_state
PersistIgnoresFlag ==
    /\ pc = "persist"
    /\ \E blob \in Blobs :
         disk' = [state |-> blob, fingerprint |-> ObjectFile(saved_state)]
    /\ persisted' = saved_state
    /\ pending' = "return"
    /\ retval' = results
    /\ pc' = "finally"
    /\ log' = log \o <<Event("write_state", <<>>), Event("write_fingerprint", <<>>)>>
    /\ UNCHANGED exc
    /\ UNCHANGED <<rd, cf, ex, chosen, args, runs, disk0, iter, headless_mode, browsers, contexts, context,
                   saved_state, page_url, results, outcome>>

\* PersistStateIfNeeded writing the fingerprint file also when no_save_state is set
PersistWritesFingerprintAlways ==
    /\ pc = "persist"
    /\ IF args.no_save_state
       THEN /\ disk' = [disk EXCEPT !.fingerprint = ObjectFile(saved_state)]
            /\ log' = log \o <<Event("persist_skipped", <<>>),
                               Event("write_fingerprint", <<>>)>>
       ELSE /\ \E blob \in Blobs :
                 disk' = [state |-> blob, fingerprint |-> ObjectFile(saved_state)]
            /\ log' = log \o <<Event("write_state", <<>>), Event("write_fingerprint", <<>>)>>
    /\ persisted' = saved_state
    /\ pending' = "return"
    /\ retval' = results
    /\ pc' = "finally"
    /\ UNCHANGED exc
    /\ UNCHANGED <<rd, cf, ex, chosen, args, runs, disk0, iter, headless_mode, browsers, contexts, context,
                   saved_state, page_url, results, outcome>>

\* _persist_state_if_needed, then the return statement of the try block
PersistStateIfNeeded ==
    /\ pc = "persist"
    /\ \/ /\ args.no_save_state
          /\ pending' = "return"
          /\ retval' = results
          /\ pc' = "finally"
          /\ log' = Append(log, Event("persist_skipped", <<>>))
          /\ UNCHANGED <<disk, exc, persisted>>
       \/ \* context.storage_state(path=...) raises
          /\ ~args.no_save_state
          /\ \E m \in EngineMessages : RaiseEngine("storage_state_failed", m)
          /\ UNCHANGED <<disk, pending, retval, persisted>>
       \/ \* the storage state is written, open(fingerprint_file, "w") raises
          /\ ~args.no_save_state
          /\ \E blob \in Blobs : disk' = [disk EXCEPT !.state = blob]
          /\ exc' = OtherError(<<"OSError">>)
          /\ pending' = "raise"
          /\ pc' = "finally"
          /\ log' = log \o <<Event("write_state", <<>>),
                             Event("write_fingerprint_failed", <<"OSError">>)>>
          /\ UNCHANGED <<retval, persisted>>
       \/ /\ ~args.no_save_state
          /\ \E blob \in Blobs :
               disk' = [state |-> blob, fingerprint |-> ObjectFile(saved_state)]
          /\ pending' = "return"
          /\ retval' = results
          /\ pc' = "finally"
          /\ log' = log \o <<Event("write_state", <<>>), Event("write_fingerprint", <<>>)>>
          /\ persisted' = saved_state
          /\ UNCHANGED exc
    /\ UNCHANGED <<rd, cf, ex, chosen, args, runs, disk0, iter, headless_mode, browsers, contexts, context,
                   saved_state, page_url, results, outcome>>

\* except PlaywrightError as e: of google_search
SearchHandler ==
    IF _is_human_verification_error(exc.msg)
    THEN IF headless_mode
         THEN /\ headless_mode' = FALSE
              /\ pending' = "continue"
              /\ UNCHANGED retval
         ELSE /\ pending' = "break"
              /\ UNCHANGED <<headless_mode, retval>>
    ELSE /\ pending' = "return"
         /\ retval' = ErrorValue(exc.msg)
         /\ UNCHANGED headless_mode

\* except PlaywrightError as e: of get_google_search_page_html
HtmlHandler ==
    IF _is_human_verification_error(exc.msg) /\ headless_mode
    THEN /\ headless_mode' = FALSE
         /\ pending' = "continue"
         /\ UNCHANGED retval
    ELSE /\ pending' = "return"
         /\ retval' = ErrorValue(exc.msg)
         /\ UNCHANGED headless_mode

\* ExceptPlaywrightError persisting the session state when the headed attempt
\* fails on verification
ExceptPersistsOnExhaustion ==
    /\ pc = "except"
    /\ IF args.op = "google_search" THEN SearchHandler ELSE HtmlHandler
    /\ exc' = NoException
    /\ pc' = "finally"
    /\ IF _is_human_verification_error(exc.msg) /\ ~headless_mode /\ ~args.no_save_state
       THEN /\ disk' = [state |-> "cookiesA", fingerprint |-> ObjectFile(saved_state)]
            /\ persisted' = saved_state
            /\ log' = log \o <<Event("except", exc.msg), Event("write_state", <<>>),
                               Event("write_fingerprint", <<>>)>>
       ELSE /\ log' = Append(log, Event("except", exc.msg))
            /\ UNCHANGED <<disk, persisted>>
    /\ UNCHANGED <<rd, cf, ex, chosen, args, runs, disk0, iter, browsers, contexts, context, saved_state,
                   page_url, results, outcome>>

\* ExceptPlaywrightError saving the session state before the headed retry
ExceptPersistsBeforeRetry ==
    /\ pc = "except"
    /\ IF args.op = "google_search" THEN SearchHandler ELSE HtmlHandler
    /\ exc' = NoException
    /\ pc' = "finally"
    /\ IF _is_human_verification_error(exc.msg) /\ headless_mode /\ ~args.no_save_state
       THEN /\ disk' = [state |-> "cookiesB", fingerprint |-> ObjectFile(saved_state)]
            /\ persisted' = saved_state
            /\ log' = log \o <<Event("except", exc.msg), Event("write_state", <<>>),
                               Event("write_fingerprint", <<>>)>>
       ELSE /\ log' = Append(log, Event("except", exc.msg))
            /\ UNCHANGED <<disk, persisted>>
    /\ UNCHANGED <<rd, cf, ex, chosen, args, runs, disk0, iter, browsers, contexts, context, saved_state,
                   page_url, results, outcome>>

\* except PlaywrightError as e: the handler of the running operation
ExceptPlaywrightError ==
    /\ pc = "except"
    /\ IF args.op = "google_search" THEN SearchHandler ELSE HtmlHandler
    /\ exc' = NoException
    /\ pc' = "finally"
    /\ log' = Append(log, Event("except", exc.msg))
    /\ UNCHANGED <<rd, cf, ex, chosen, persisted, args, runs, disk, disk0, iter, browsers, contexts, context, saved_state,
                   page_url, results, outcome>>

\* FinallyCloseContext leaving the context to browser.close()
FinallyLeavesContext ==
    /\ pc = "finally"
    /\ pc' = "finally_browser"
    /\ UNCHANGED <<contexts, exc, outcome, log>>
    /\ UNCHANGED <<rd, cf, ex, chosen, persisted, args, runs, disk, disk0, iter, headless_mode, browsers, context,
                   saved_state, page_url, results, pending, retval>>

\* finally: if context: await context.close()
FinallyCloseContext ==
    /\ pc = "finally"
    /\ \/ /\ ~context
          /\ pc' = "finally_browser"
          /\ UNCHANGED <<contexts, exc, outcome, log>>
       \/ /\ context
          /\ contexts' = [contexts EXCEPT ![iter] = "closed"]
          /\ pc' = "finally_browser"
          /\ log' = Append(log, Event("close_context", <<>>))
          /\ UNCHANGED <<exc, outcome>>
       \/ \* context.close() raises: the exception leaves the finally block
          /\ context
          /\ \E m \in EngineMessages, c \in {"open", "closed"} :
               /\ contexts' = [contexts EXCEPT ![iter] = c]
               /\ exc' = PlaywrightError(m)
               /\ log' = Append(log, Event("close_context_failed", m))
          /\ outcome' = "raised"
          /\ pc' = "done"
    /\ UNCHANGED <<rd, cf, ex, chosen, persisted, args, runs, disk, disk0, iter, headless_mode, browsers, context,
                   saved_state, page_url, results, pending, retval>>

\* the statement after the loop
ExhaustedValue == ErrorValue(MsgExhausted)

\* finally: if browser: await browser.close(); then the pending completion
FinallyCloseBrowser ==
    /\ pc = "finally_browser"
    /\ \/ /\ browsers' = [browsers EXCEPT ![iter] = "closed"]
          /\ contexts' = [contexts EXCEPT ![iter] = IF @ = "none" THEN "none" ELSE "closed"]
          /\ log' = Append(log, Event("close_browser", <<>>))
          /\ UNCHANGED exc
          /\ CASE pending = "return" ->
                    /\ outcome' = "returned"
                    /\ pc' = "done"
                    /\ UNCHANGED retval
               [] pending = "raise" ->
                    /\ outcome' = "raised"
                    /\ pc' = "done"
                    /\ UNCHANGED retval
               [] pending = "break" \/ (pending = "continue" /\ iter >= LoopBound) ->
                    /\ outcome' = "returned"
                    /\ retval' = ExhaustedValue
                    /\ pc' = "done"
               [] pending = "continue" /\ iter < LoopBound ->
                    /\ pc' = "launch"
                    /\ UNCHANGED <<outcome, retval>>
          /\ pending' = "none"
       \/ \* browser.close() raises
          /\ \E m \in EngineMessages, b \in {"open", "closed"} :
               /\ browsers' = [browsers EXCEPT ![iter] = b]
               /\ contexts' = [contexts EXCEPT ![iter] =
                                 IF b = "closed" /\ @ # "none" THEN "closed" ELSE @]
               /\ exc' = PlaywrightError(m)
               /\ log' = Append(log, Event("close_browser_failed", m))
          /\ outcome' = "raised"
          /\ pc' = "done"
          /\ UNCHANGED <<pending, retval>>
    /\ UNCHANGED <<rd, cf, ex, chosen, persisted, args, runs, disk, disk0, iter, headless_mode, context, saved_state,
                   page_url, results>>

\* the next invocation of an operation on the same profile path
StartRun ==
    /\ outcome # "running"
    /\ runs < MaxRuns
    /\ runs' = runs + 1
    /\ disk0' = disk
    /\ \E a \in Arguments :
         /\ args' = a
         /\ headless_mode' = a.headless
    /\ pc' = "launch"
    /\ iter' = 0
    /\ browsers' = <<>>
    /\ contexts' = <<>>
    /\ context' = FALSE
    /\ saved_state' = EmptyState
    /\ page_url' = <<>>
    /\ results' = NoResult
    /\ exc' = NoException
    /\ pending' = "none"
    /\ retval' = NoResult
    /\ outcome' = "running"
    /\ log' = <<>>
    /\ UNCHANGED <<disk, chosen, persisted, ex, rd, cf>>

Next ==
    \/ LaunchBrowser
    \/ PrepareContextPage
    \/ Navigate
    \/ GateInitialLoad
    \/ FindSearchBox
    \/ SubmitQuery
    \/ GateAfterSubmission
    \/ WaitForUrl
    \/ CheckResults
    \/ ExtractResults
    \/ CapturePage
    \/ PersistStateIfNeeded
    \/ ExceptPlaywrightError
    \/ FinallyCloseContext
    \/ FinallyCloseBrowser
    \/ StartRun

Spec == Init /\ [][Next]_vars

\* one call of google_search or get_google_search_page_html, from its first step to its
\* return or raise, in which every awaited browser operation comes back
NextAttempt ==
    \/ LaunchBrowser
    \/ PrepareContextPage
    \/ Navigate
    \/ GateInitialLoad
    \/ FindSearchBox
    \/ SubmitQuery
    \/ GateAfterSubmission
    \/ WaitForUrl
    \/ CheckResults
    \/ ExtractResults
    \/ CapturePage
    \/ PersistStateIfNeeded
    \/ ExceptPlaywrightError
    \/ FinallyCloseContext
    \/ FinallyCloseBrowser

SpecLive == Init /\ [][NextAttempt]_vars /\ WF_vars(NextAttempt)

(* --------------------------- _extract_results -------------------------- *)
\* the container, title and snippet selectors, by priority
selector_sets ==
    << [container |-> "#search div[data-hveid]", title |-> "h3", snippet |-> ".VwiC3b"],
       [container |-> "#rso div[data-hveid]", title |-> "h3", snippet |-> "[data-sncf='1']"],
       [container |-> ".g", title |-> "h3", snippet |-> "div[style*='webkit-line-clamp']"],
       [container |-> "div[jscontroller][data-hveid]", title |-> "h3",
        snippet |-> "div[role='text']"] >>

Whitespace == {" ", "\n"}
RECURSIVE StripLeft(_)
StripLeft(text) ==
    IF text # <<>> /\ Head(text) \in Whitespace THEN StripLeft(Tail(text)) ELSE text
RECURSIVE StripRight(_)
StripRight(text) ==
    IF text # <<>> /\ text[Len(text)] \in Whitespace
    THEN StripRight(SubSeq(text, 1, Len(text) - 1))
    ELSE text
\* str.strip()
Strip(text) == StripRight(StripLeft(text))

\* link.startswith("http")
StartsWithHttp(link) == link # <<>> /\ Head(link) = "http"

NoElement == [found |-> FALSE, text |-> <<>>]
Text(t) == [found |-> TRUE, text |-> t]
LinkA == <<"http", "s", "://", "a.example/">>
LinkB == <<"http", "://", "b.example/">>
\* the elements a page is made of: the container selectors an element matches, its
\* h3 descendant, the href of the anchor around the h3, and its snippet descendant
\* with the snippet selector that finds it
Elements ==
    { [matches |-> {selector_sets[1].container, selector_sets[2].container},
       title |-> Text(<<"Alpha">>), link |-> LinkA,
       snippet |-> Text(<<"about", " ", "alpha">>), snippetSelector |-> selector_sets[1].snippet],
      [matches |-> {selector_sets[1].container},
       title |-> Text(<<" ", "Beta", "\n">>), link |-> LinkB,
       snippet |-> NoElement, snippetSelector |-> selector_sets[1].snippet],
      [matches |-> {selector_sets[2].container, selector_sets[3].container},
       title |-> Text(<<"Alpha", " ", "again">>), link |-> LinkA,
       snippet |-> Text(<<" ", "more">>), snippetSelector |-> selector_sets[2].snippet],
      [matches |-> {selector_sets[4].container},
       title |-> Text(<<"Delta">>), link |-> <<"http", "://", "d.example/">>,
       snippet |-> Text(<<"delta">>), snippetSelector |-> selector_sets[1].snippet],
      [matches |-> {selector_sets[1].container},
       title |-> NoElement, link |-> <<>>,
       snippet |-> NoElement, snippetSelector |-> selector_sets[1].snippet],
      [matches |-> {selector_sets[1].container, selector_sets[3].container},
       title |-> Text(<<" ", "\n">>), link |-> <<"http", "://", "e.example/">>,
       snippet |-> NoElement, snippetSelector |-> selector_sets[1].snippet],
      [matches |-> {selector_sets[2].container},
       title |-> Text(<<"Zeta">>), link |-> <<"javascript:", "void(0)">>,
       snippet |-> NoElement, snippetSelector |-> selector_sets[2].snippet],
      [matches |-> {selector_sets[3].container},
       title |-> Text(<<"Eta">>), link |-> <<>>,
       snippet |-> NoElement, snippetSelector |-> selector_sets[3].snippet],
      [matches |-> {selector_sets[1].container},
       title |-> Text(<<"Theta">>), link |-> <<"http", "x", "://", "f.example/">>,
       snippet |-> NoElement, snippetSelector |-> selector_sets[1].snippet] }

\* pages: the candidate elements in document order
Pages == UNION {[1..n -> Elements] : n \in 0..MaxElements}
Limits == 0..MaxLimit

\* page.query_selector_all(selector): the matching elements in document order
RECURSIVE query_selector_all(_, _)
query_selector_all(page, selector) ==
    IF page = <<>> THEN <<>>
    ELSE (IF selector \in Head(page).matches THEN <<Head(page)>> ELSE <<>>)
             \o query_selector_all(Tail(page), selector)

\* container.query_selector(selectors["snippet"]) and the stripped inner text
Snippet(container, selector) ==
    IF container.snippet.found /\ container.snippetSelector = selector
    THEN Strip(container.snippet.text)
    ELSE <<>>

\* the variables of a run, which a call of _extract_results leaves alone
runVars == <<args, runs, disk, disk0, pc, iter, headless_mode, browsers, contexts, context,
             saved_state, page_url, results, exc, pending, retval, outcome, log,
             chosen, persisted>>

\* _extract_results(page, limit) is called
ExCall(page, limit) ==
    [pc |-> "strategy", page |-> page, limit |-> limit, s |-> 1, containers |-> <<>>,
     c |-> 1, results |-> <<>>, origin |-> <<>>, seen_urls |-> {}, queried |-> <<>>,
     returned |-> <<>>]

InitExtract ==
    /\ runs = 1
    /\ disk = [state |-> NoBlob, fingerprint |-> AbsentFile]
    /\ disk0 = disk
    /\ persisted = EmptyState
    /\ chosen = [domain |-> <<>>, run |-> 0]
    /\ RunInit([op |-> "google_search", query |-> "tla", headless |-> TRUE,
                no_save_state |-> TRUE, locale |-> "en-US"])
    /\ rd = RdIdle
    /\ cf = CfIdle
    /\ \E page \in Pages, limit \in Limits : ex = ExCall(page, limit)

\* ExStrategy stopping at the first strategy whose container query matched
ExStrategyFirstWins ==
    /\ ex.pc = "strategy"
    /\ IF ex.s > Len(selector_sets) \/ Len(ex.results) >= ex.limit
          \/ \E k \in 1..Len(ex.queried) :
                 query_selector_all(ex.page, selector_sets[ex.queried[k]].container) # <<>>
       THEN ex' = [ex EXCEPT !.pc = "return"]
       ELSE ex' = [ex EXCEPT !.pc = "container",
                             !.containers =
                                 query_selector_all(ex.page, selector_sets[ex.s].container),
                             !.c = 1,
                             !.queried = Append(@, ex.s)]
    /\ UNCHANGED <<runVars, rd, cf>>

\* for selectors in selector_sets: the length check and the container query
ExStrategy ==
    /\ ex.pc = "strategy"
    /\ IF ex.s > Len(selector_sets) \/ Len(ex.results) >= ex.limit
       THEN ex' = [ex EXCEPT !.pc = "return"]
       ELSE ex' = [ex EXCEPT !.pc = "container",
                             !.containers =
                                 query_selector_all(ex.page, selector_sets[ex.s].container),
                             !.c = 1,
                             !.queried = Append(@, ex.s)]
    /\ UNCHANGED <<runVars, rd, cf>>

\* ExContainer without the seen_urls test
ExContainerNoDedup ==
    /\ ex.pc = "container"
    /\ IF ex.c > Len(ex.containers) \/ Len(ex.results) >= ex.limit
       THEN ex' = [ex EXCEPT !.pc = "strategy", !.s = @ + 1]
       ELSE LET container == ex.containers[ex.c]
                title == Strip(container.title.text)
                link == container.link
            IN  IF ~container.title.found \/ title = <<>> \/ link = <<>>
                   \/ ~StartsWithHttp(link)
                THEN ex' = [ex EXCEPT !.c = @ + 1]
                ELSE ex' = [ex EXCEPT
                              !.c = @ + 1,
                              !.results = Append(@,
                                  [title |-> title, link |-> link,
                                   snippet |-> Snippet(container, selector_sets[ex.s].snippet)]),
                              !.origin = Append(@, ex.s),
                              !.seen_urls = @ \cup {link}]
    /\ UNCHANGED <<runVars, rd, cf>>

\* for container in containers: one iteration, or the end of the inner loop
ExContainer ==
    /\ ex.pc = "container"
    /\ IF ex.c > Len(ex.containers) \/ Len(ex.results) >= ex.limit
       THEN ex' = [ex EXCEPT !.pc = "strategy", !.s = @ + 1]
       ELSE LET container == ex.containers[ex.c]
                title == Strip(container.title.text)
                link == container.link
            IN  IF ~container.title.found \/ title = <<>> \/ link = <<>>
                   \/ ~StartsWithHttp(link) \/ link \in ex.seen_urls
                THEN ex' = [ex EXCEPT !.c = @ + 1]
                ELSE ex' = [ex EXCEPT
                              !.c = @ + 1,
                              !.results = Append(@,
                                  [title |-> title, link |-> link,
                                   snippet |-> Snippet(container, selector_sets[ex.s].snippet)]),
                              !.origin = Append(@, ex.s),
                              !.seen_urls = @ \cup {link}]
    /\ UNCHANGED <<runVars, rd, cf>>

\* return results[:limit]
ExReturn ==
    /\ ex.pc = "return"
    /\ ex' = [ex EXCEPT !.pc = "done",
                        !.returned = SubSeq(ex.results, 1,
                                            IF Len(ex.results) < ex.limit
                                            THEN Len(ex.results) ELSE ex.limit)]
    /\ UNCHANGED <<runVars, rd, cf>>

NextExtract ==
    \/ ExStrategy
    \/ ExContainer
    \/ ExReturn

SpecExtract == InitExtract /\ [][NextExtract]_vars

(* ======================== properties of a run ========================== *)
Finished == outcome # "running"
IsSearch == args.op = "google_search"
Occurred(e) == \E i \in DOMAIN log : log[i].ev = e
OccurredIn(e, it) == \E i \in DOMAIN log : log[i].ev = e /\ log[i].iter = it
LaunchCalls == Cardinality({i \in DOMAIN log : log[i].ev \in {"launch", "launch_failed"}})
IsErrorValue(v) == "error" \in DOMAIN v
VerificationRelated(m) == Contains(m, <<"Human", " ", "verification">>)
\* failures of the steps of the try block that raise an engine error
StepFailures ==
    {"new_context_failed", "new_page_failed", "goto_failed", "gate_initial_failed",
     "find_box_failed", "submit_failed", "gate_after_failed", "wait_for_url_failed",
     "check_results_failed", "extract_failed", "capture_failed", "storage_state_failed"}
GateFailures == {"gate_initial_failed", "gate_after_failed"}
ReleaseFailures == {"close_context_failed", "close_browser_failed"}

\* C1: when an operation returns or raises, every browser launched in the run has
\* been released (closed, or at least its close() was called) and no context is
\* left open without a release of it or of its browser having been called.
C1_ReleasedOnEveryExit ==
    Finished =>
        \A i \in DOMAIN browsers :
            /\ browsers[i] = "closed" \/ OccurredIn("close_browser_failed", i)
            /\ contexts[i] = "open" =>
                   OccurredIn("close_context_failed", i) \/ OccurredIn("close_browser_failed", i)

\* C2: google_search never raises: whatever step fails, it returns a value.
C2_NeverRaises == IsSearch => outcome # "raised"

\* C3: in one run of either operation at most two browsers are launched (at most
\* two launch calls are made) and no third attempt is started.
C3_AtMostTwoAttempts == LaunchCalls <= 2 /\ Len(browsers) <= 2 /\ iter <= 2
C3_Witness == Finished /\ Len(browsers) = 2 /\ browsers[2] = "closed"

\* C4: a run started headless whose gate matched in the first attempt retries the
\* whole sequence exactly once, headed, never goes back to headless, and, when the
\* challenge is met again, returns an error value with a verification-related
\* message after exactly two launches, never an exception.
C4_EscalatesOnceThenReports ==
    (Finished /\ args.headless /\ \E e \in GateFailures : OccurredIn(e, 1)) =>
        /\ Len(browsers) = 2
        /\ \A i \in DOMAIN log : log[i].iter = 2 => ~log[i].headless
        /\ (OccurredIn("gate_initial_failed", 2) \/ OccurredIn("gate_after_blocked", 2)) =>
               /\ outcome = "returned"
               /\ IsErrorValue(retval)
               /\ VerificationRelated(retval.error)

\* C5: an engine failure of a step that is not a verification failure is terminal:
\* no browser is launched after it and the operation returns an error value
\* carrying that failure's message.
C5_OtherFailuresTerminal ==
    \A i \in DOMAIN log :
        (log[i].ev \in StepFailures /\ ~VerificationRelated(log[i].msg)) =>
            /\ \A j \in DOMAIN log : j > i => log[j].ev \notin {"launch", "launch_failed"}
            /\ pc # "launch"
            /\ Finished =>
                   /\ outcome = "returned"
                   /\ IsErrorValue(retval)
                   /\ retval.error = log[i].msg

\* C6: when the second (headed) attempt fails on verification, the value returned is the
\* 'retries exhausted' error, in both operations, and no further attempt starts.
C6_HeadedFailureExhausted ==
    \A i \in DOMAIN log :
        (log[i].ev \in GateFailures /\ ~log[i].headless /\ log[i].iter = 2) =>
            /\ \A j \in DOMAIN log : j > i => log[j].ev \notin {"launch", "launch_failed"}
            /\ outcome = "returned" =>
                   IsErrorValue(retval) /\ retval.error = MsgExhausted

\* C7: in headed mode the gate never fails on a match, at either checkpoint.
C7_HeadedGateNeverFails ==
    \A i \in DOMAIN log : log[i].ev \in GateFailures => log[i].headless

WriteEvents == {"write_state", "write_fingerprint"}
CloseEvents == {"close_context", "close_browser"} \cup ReleaseFailures
SuccessValue == outcome = "returned" /\ ~IsErrorValue(retval)

\* C8: with persistence enabled, a run that reached ResultsReady / RawPageCaptured
\* runs the persistence step next, and a success result is only returned after the
\* storage state and the fingerprint file (fingerprint and googleDomain) were
\* written, both before the context or the browser of the attempt is released.
C8_PersistedBeforeRelease ==
    ~args.no_save_state =>
        /\ \A i \in DOMAIN log :
               (log[i].ev \in {"extract", "capture"} /\ i < Len(log)) =>
                   log[i + 1].ev \in {"write_state", "storage_state_failed"}
        /\ \A i \in DOMAIN log :
               log[i].ev \in WriteEvents =>
                   \A j \in 1..i :
                       ~(log[j].ev \in CloseEvents /\ log[j].iter = log[i].iter)
        /\ SuccessValue =>
               /\ Occurred("write_state") /\ Occurred("write_fingerprint")
               /\ disk.state \in Blobs
               /\ disk.fingerprint = ObjectFile(saved_state)
               /\ saved_state.googleDomain # <<>>
               /\ saved_state.fingerprint # NoFingerprint
C8_Witness ==
    /\ ~args.no_save_state
    /\ SuccessValue
    /\ Occurred("write_fingerprint")
    /\ browsers[iter] = "closed"

\* C9 as stated: with persistence enabled, a run that ends headed-exhausted has
\* written the session state back to disk.
C9_ExhaustedRunPersists ==
    (~args.no_save_state /\ outcome = "returned" /\ IsErrorValue(retval)
         /\ retval.error = MsgExhausted) =>
        Occurred("write_state") /\ Occurred("write_fingerprint")

\* C9 amended: a run that ends headed-exhausted writes nothing; both profile files
\* are as they were when the run started, whether or not persistence is enabled.
C9_ExhaustedRunWritesNothing ==
    (outcome = "returned" /\ IsErrorValue(retval) /\ retval.error = MsgExhausted) =>
        /\ disk = disk0
        /\ ~Occurred("write_state")
        /\ ~Occurred("write_fingerprint")
C9_Witness ==
    /\ ~args.no_save_state
    /\ outcome = "returned"
    /\ IsErrorValue(retval)
    /\ retval.error = MsgExhausted
    /\ OccurredIn("gate_initial_failed", iter)

\* C10: with persistence disabled no run of either operation creates or modifies
\* the storage-state file: at every moment of the run its content is the content
\* it had when the run started, and it is never written.
C10_StorageUntouched ==
    args.no_save_state => disk.state = disk0.state /\ ~Occurred("write_state")
C10_Witness ==
    /\ args.no_save_state
    /\ SuccessValue
    /\ Occurred("persist_skipped")
    /\ Len(browsers) = 2

(* ------------- the context factories of search.py and browser_utils.py ------------- *)
\* browser_utils.py: "dark" if 19 <= now.hour or now.hour < 7 else "light"
UtilsColorScheme(hour) == IF 19 <= hour \/ hour < 7 THEN "dark" ELSE "light"

\* browser_utils.py: host_config
UtilsHostConfig(state, locale, hour) ==
    [deviceName |-> DeviceName(state), locale |-> locale, timezoneId |-> "America/New_York",
     colorScheme |-> UtilsColorScheme(hour), reducedMotion |-> "no-preference",
     forcedColors |-> "none"]

\* browser_utils.py: saved_state as create_browser_context returns it
UtilsLoadedState(file, locale, hour) ==
    LET loaded == IF file.kind = "object" THEN JsonLoad(file.entries) ELSE EmptyState
    IN  IF loaded.fingerprint # NoFingerprint
        THEN loaded
        ELSE [loaded EXCEPT !.fingerprint = UtilsHostConfig(loaded, locale, hour)]

\* every hour of the day, read twice within the same hour or across its end
DayClockReads ==
    {<<h, h>> : h \in 0..23} \cup {<<h, (h + 1) % 24>> : h \in 0..23}
\* a profile without fingerprint file and one with a stored fingerprint
FactoryFiles == {AbsentFile, ObjectFile(StoredState)}

InitFactory ==
    /\ runs = 1
    /\ disk = [state |-> NoBlob, fingerprint |-> AbsentFile]
    /\ disk0 = disk
    /\ persisted = EmptyState
    /\ chosen = [domain |-> <<>>, run |-> 0]
    /\ RunInit([op |-> "google_search", query |-> "tla", headless |-> TRUE,
                no_save_state |-> TRUE, locale |-> "en-US"])
    /\ ex = ExIdle
    /\ rd = RdIdle
    /\ \E file \in FactoryFiles, locale \in Locales, now \in DayClockReads :
         cf = [pc |-> "call", file |-> file, locale |-> locale, now |-> now,
               searchDone |-> FALSE, search |-> EmptyState,
               utilsDone |-> FALSE, utils |-> EmptyState]

\* search.py: _create_browser_context on the profile
CreateContextSearch ==
    /\ cf.pc = "call"
    /\ ~cf.searchDone
    /\ cf' = [cf EXCEPT !.searchDone = TRUE,
                        !.search = LoadedState(cf.file, cf.locale, cf.now)]
    /\ UNCHANGED <<runVars, ex, rd>>

\* browser_utils.py: create_browser_context on the profile, its one clock read
\* being the first of the two
CreateContextUtils ==
    /\ cf.pc = "call"
    /\ ~cf.utilsDone
    /\ cf' = [cf EXCEPT !.utilsDone = TRUE,
                        !.utils = UtilsLoadedState(cf.file, cf.locale, cf.now[1])]
    /\ UNCHANGED <<runVars, ex, rd>>

NextFactory ==
    \/ CreateContextSearch
    \/ CreateContextUtils

SpecFactory == InitFactory /\ [][NextFactory]_vars

(* --------------------- page_content.py: page to Markdown ---------------------- *)
\* the URLs handed to fetch_page_markdown_async
PageUrls == {<<"https://", "example.org/">>, <<"https://", "example.org/", "slow">>}
\* page.content(): nothing loaded yet, a part of the document, the whole document
BlankContent == <<>>
PartialContent == <<"<h1>Hello</h1>">>
FullContent == <<"<h1>Hello</h1>", "<p>World</p>">>
\* the classes of the errors the engine raises
EngineErrorKinds == {"Error", "TimeoutError"}

\* convert_html_to_markdown(html, url): the document MarkItDown makes of the HTML
Markdown(html, url) == [markdown_of |-> html, url |-> url]

\* RuntimeError(f"Failed to load page: {url}") from exc
LoadPageError(url, cause) ==
    [type |-> "RuntimeError", msg |-> <<"Failed to load page: ">> \o url, cause |-> cause]
\* a PlaywrightError or PlaywrightTimeoutError raised by a step
EngineError(step, kind) == [step |-> step, kind |-> kind]
NoEngineError == EngineError("none", "none")
NothingRaised == [type |-> "none", msg |-> <<>>, cause |-> NoEngineError]

CallFetch(url, headless) ==
    [pc |-> "launch", url |-> url, headless |-> headless, browser |-> "none",
     content |-> BlankContent, html |-> BlankContent, pending |-> "none",
     exc |-> NoEngineError, outcome |-> "running", retval |-> NoResult,
     raised |-> NothingRaised, log |-> <<>>]

InitRender ==
    /\ runs = 1
    /\ disk = [state |-> NoBlob, fingerprint |-> AbsentFile]
    /\ disk0 = disk
    /\ persisted = EmptyState
    /\ chosen = [domain |-> <<>>, run |-> 0]
    /\ RunInit([op |-> "google_search", query |-> "tla", headless |-> TRUE,
                no_save_state |-> TRUE, locale |-> "en-US"])
    /\ ex = ExIdle
    /\ cf = CfIdle
    /\ \E url \in PageUrls, headless \in BOOLEAN : rd = CallFetch(url, headless)

\* _render_page_html: browser = await launch_browser(playwright, headless=headless)
RenderLaunch ==
    /\ rd.pc = "launch"
    /\ \/ rd' = [rd EXCEPT !.pc = "new_page", !.browser = "open",
                           !.log = Append(@, "launch")]
       \/ \E kind \in EngineErrorKinds :
            rd' = [rd EXCEPT !.pc = "wrap", !.exc = EngineError("launch", kind),
                             !.log = Append(@, "launch_failed")]
    /\ UNCHANGED <<runVars, ex, cf>>

\* _render_page_html: page = await browser.new_page(), before the try statement
RenderNewPage ==
    /\ rd.pc = "new_page"
    /\ \/ rd' = [rd EXCEPT !.pc = "goto", !.log = Append(@, "new_page")]
       \/ \E kind \in EngineErrorKinds :
            rd' = [rd EXCEPT !.pc = "wrap", !.exc = EngineError("new_page", kind),
                             !.log = Append(@, "new_page_failed")]
    /\ UNCHANGED <<runVars, ex, cf>>

\* try: await page.goto(url, wait_until="networkidle", timeout=timeout_ms), where the
\* timeout is caught as if it were any other engine error
RenderGotoTimeoutFails ==
    /\ rd.pc = "goto"
    /\ \/ rd' = [rd EXCEPT !.pc = "content", !.content = FullContent,
                           !.log = Append(@, "goto")]
       \/ \E loaded \in {BlankContent, PartialContent} :
            rd' = [rd EXCEPT !.pc = "finally", !.content = loaded, !.pending = "raise",
                             !.exc = EngineError("goto", "TimeoutError"),
                             !.log = Append(@, "goto_timeout")]
       \/ rd' = [rd EXCEPT !.pc = "finally", !.pending = "raise",
                           !.exc = EngineError("goto", "Error"),
                           !.log = Append(@, "goto_failed")]
    /\ UNCHANGED <<runVars, ex, cf>>
\* try: await page.goto(url, wait_until="networkidle", timeout=timeout_ms);
\* except PlaywrightTimeoutError: logs a warning and goes on with what has loaded
RenderGoto ==
    /\ rd.pc = "goto"
    /\ \/ rd' = [rd EXCEPT !.pc = "content", !.content = FullContent,
                           !.log = Append(@, "goto")]
       \/ \E loaded \in {BlankContent, PartialContent} :
            rd' = [rd EXCEPT !.pc = "fallback", !.content = loaded,
                             !.log = Append(@, "goto_timeout")]
       \/ rd' = [rd EXCEPT !.pc = "finally", !.pending = "raise",
                           !.exc = EngineError("goto", "Error"),
                           !.log = Append(@, "goto_failed")]
    /\ UNCHANGED <<runVars, ex, cf>>

\* try: return await page.content()
RenderContent ==
    /\ rd.pc = "content"
    /\ \/ rd' = [rd EXCEPT !.pc = "finally", !.html = rd.content, !.pending = "return",
                           !.log = Append(@, "content")]
       \/ rd' = [rd EXCEPT !.pc = "finally", !.pending = "raise",
                           !.exc = EngineError("content", "Error"),
                           !.log = Append(@, "content_failed")]
    /\ UNCHANGED <<runVars, ex, cf>>

\* except PlaywrightTimeoutError: return await page.content()
RenderFallback ==
    /\ rd.pc = "fallback"
    /\ \/ rd' = [rd EXCEPT !.pc = "finally", !.html = rd.content, !.pending = "return",
                           !.log = Append(@, "fallback_content")]
       \/ rd' = [rd EXCEPT !.pc = "finally", !.pending = "raise",
                           !.exc = EngineError("fallback", "Error"),
                           !.log = Append(@, "fallback_failed")]
    /\ UNCHANGED <<runVars, ex, cf>>

\* finally: await browser.close(), then the pending return or raise goes on; an error
\* of close() takes the place of either
RenderClose ==
    /\ rd.pc = "finally"
    /\ \/ rd' = [rd EXCEPT !.pc = IF rd.pending = "return" THEN "convert" ELSE "wrap",
                           !.browser = "closed", !.log = Append(@, "close")]
       \/ \E kind \in EngineErrorKinds :
            rd' = [rd EXCEPT !.pc = "wrap", !.pending = "raise",
                             !.exc = EngineError("close", kind),
                             !.log = Append(@, "close_failed")]
    /\ UNCHANGED <<runVars, ex, cf>>

\* fetch_page_markdown_async: except PlaywrightError as exc: raise RuntimeError(...) from exc
RenderWrap ==
    /\ rd.pc = "wrap"
    /\ rd' = [rd EXCEPT !.pc = "done", !.outcome = "raised",
                        !.raised = LoadPageError(rd.url, rd.exc),
                        !.log = Append(@, "raise")]
    /\ UNCHANGED <<runVars, ex, cf>>

\* fetch_page_markdown_async: return convert_html_to_markdown(html, url=url)
RenderConvert ==
    /\ rd.pc = "convert"
    /\ rd' = [rd EXCEPT !.pc = "done", !.outcome = "returned",
                        !.retval = Markdown(rd.html, rd.url),
                        !.log = Append(@, "return")]
    /\ UNCHANGED <<runVars, ex, cf>>

NextRender ==
    \/ RenderLaunch
    \/ RenderNewPage
    \/ RenderGoto
    \/ RenderContent
    \/ RenderFallback
    \/ RenderClose
    \/ RenderWrap
    \/ RenderConvert

SpecRender == InitRender /\ [][NextRender]_vars

\* the run found a fingerprint file holding a JSON object
StoredProfile == disk0.fingerprint.kind = "object"
\* the session state in the fingerprint file the run found
StoredAtStart == JsonLoad(disk0.fingerprint.entries)
\* the session state in the fingerprint file now
StoredNow == JsonLoad(disk.fingerprint.entries)
FreshProfile == disk0 = [state |-> NoBlob, fingerprint |-> AbsentFile]

\* C11 as stated: the save step writes the fingerprint companion file also when
\* persistence is disabled (the step was skipped for the storage state only).
C11_FingerprintAlwaysWritten ==
    Occurred("persist_skipped") => Occurred("write_fingerprint")

\* C11 amended: the save step writes the fingerprint companion file only together
\* with the storage-state file, when persistence is enabled; with persistence
\* disabled the fingerprint file is never written and keeps its content.
C11_FingerprintWrittenWithStorage ==
    /\ args.no_save_state =>
           disk.fingerprint = disk0.fingerprint /\ ~Occurred("write_fingerprint")
    /\ \A i \in DOMAIN log :
           log[i].ev = "write_fingerprint" =>
               /\ ~args.no_save_state
               /\ i > 1
               /\ log[i - 1].ev = "write_state"
C11_Witness ==
    /\ args.no_save_state
    /\ disk0.fingerprint.kind = "absent"
    /\ SuccessValue
    /\ Occurred("persist_skipped")
    /\ saved_state.fingerprint # NoFingerprint

\* C12: when the fingerprint file holds a fingerprint, every context of the run is
\* created with the stored locale, timezoneId and colorScheme, the session state
\* carries the stored fingerprint, and a fingerprint written afterwards is the
\* stored one: the caller's locale and the clock have no effect.
C12_StoredFingerprintReused ==
    StoredProfile =>
        LET stored == StoredAtStart
            options == ContextOptions(stored)
        IN  /\ \A i \in DOMAIN log : log[i].ev = "context" => log[i].msg = options
            /\ context => saved_state.fingerprint = stored.fingerprint
            /\ Occurred("write_fingerprint") => StoredNow.fingerprint = stored.fingerprint
C12_Witness ==
    /\ StoredProfile
    /\ StoredAtStart.fingerprint.locale = "fr-FR"
    /\ StoredAtStart.fingerprint.colorScheme = "dark"
    /\ args.locale = "en-US"
    /\ SuccessValue
    /\ Occurred("context")
    /\ Occurred("write_fingerprint")

\* C13: once the fingerprint file holds a fingerprint and a googleDomain, no run
\* changes it: at every moment of every later run, whatever its outcome and its
\* locale argument, the file has the content it had when the run started.
C13_StoredProfileImmutable ==
    disk.fingerprint # disk0.fingerprint =>
        ~(StoredProfile /\ StoredAtStart.fingerprint # NoFingerprint
              /\ StoredAtStart.googleDomain # <<>>)
C13_Witness ==
    /\ runs = 2
    /\ StoredProfile
    /\ disk0.fingerprint # ObjectFile(StoredState)
    /\ StoredAtStart.fingerprint.locale # args.locale
    /\ Len(browsers) = 2
    /\ Occurred("write_fingerprint")
    /\ SuccessValue

\* C14 as stated: once a domain has been chosen for the profile, every navigation
\* of every later run goes to that domain, whatever the earlier runs did.
C14_DomainChosenOnce ==
    \A i \in DOMAIN log :
        (log[i].ev = "goto" /\ chosen.domain # <<>> /\ runs > chosen.run) =>
            log[i].msg = chosen.domain

\* C14 amended: a run that finds a googleDomain in the profile's fingerprint file
\* navigates to that domain in every attempt; a run that finds none chooses from
\* the fixed candidate list.
C14_StoredDomainReused ==
    LET domain == IF StoredProfile THEN StoredAtStart.googleDomain ELSE <<>>
    IN  \A i \in DOMAIN log :
            log[i].ev = "goto" =>
                IF domain # <<>>
                THEN log[i].msg = domain
                ELSE \E k \in DOMAIN GOOGLE_DOMAINS : log[i].msg = GOOGLE_DOMAINS[k]
C14_Witness ==
    /\ runs = 2
    /\ StoredProfile
    /\ disk0.fingerprint # ObjectFile(StoredState)
    /\ OccurredIn("goto", 1)
    /\ OccurredIn("goto", 2)
    /\ Finished

C16_RoundTrip ==
    (StoredProfile /\ pc = "navigate") =>
        /\ \A k \in DOMAIN NoFingerprint :
               saved_state.fingerprint[k] = persisted.fingerprint[k]
        /\ saved_state.googleDomain = persisted.googleDomain
C16_Witness ==
    /\ runs = 2
    /\ StoredProfile
    /\ pc = "navigate"
    /\ disk0.fingerprint # ObjectFile(StoredState)
    /\ persisted.fingerprint.locale = "fr-FR"
    /\ persisted.googleDomain = GOOGLE_DOMAINS[2]

\* C19: a value returned by google_search is {query, results} without an error
\* key, or {query, results, error} with an empty results list; query is the
\* caller's query.
C19_ResultShape ==
    (IsSearch /\ outcome = "returned") =>
        /\ retval.query = args.query
        /\ \/ DOMAIN retval = {"query", "results"}
           \/ /\ DOMAIN retval = {"query", "results", "error"}
              /\ retval.results = <<>>
C19_Witness ==
    /\ IsSearch
    /\ outcome = "returned"
    /\ IsErrorValue(retval)
    /\ retval.error = MsgNoResults

\* C20: when the fingerprint file decodes to something that is not a mapping, the
\* run creates no context, navigates nowhere, writes nothing, synthesizes no
\* fingerprint, and ends with the exception raised to the caller.
C20_MalformedFingerprintFailsFast ==
    disk0.fingerprint.kind = "list" =>
        /\ ~Occurred("context") /\ ~Occurred("goto")
        /\ \A i \in DOMAIN contexts : contexts[i] = "none"
        /\ saved_state = EmptyState
        /\ disk = disk0
        /\ Len(browsers) <= 1
        /\ Finished => outcome = "raised"
C20_Witness ==
    /\ disk0.fingerprint.kind = "list"
    /\ outcome = "raised"
    /\ Occurred("load_failed")
    /\ exc.msg = <<"AssertionError">>
    /\ browsers[1] = "closed"

\* the containers the page holds for strategy k
ContainersOf(k) == query_selector_all(ex.page, selector_sets[k].container)
\* how many of the accumulated records come from strategies before k
AccumulatedBefore(k) == Cardinality({i \in DOMAIN ex.origin : ex.origin[i] < k})
Queried(k) == \E i \in DOMAIN ex.queried : ex.queried[i] = k

\* C17: _extract_results returns at most limit records, and no two returned
\* records have the same link.
C17_AtMostLimitDistinctLinks ==
    ex.pc = "done" =>
        /\ Len(ex.returned) <= ex.limit
        /\ \A i, j \in DOMAIN ex.returned :
               i # j => ex.returned[i].link # ex.returned[j].link
C17_Witness ==
    /\ ex.pc = "done"
    /\ ex.limit = 2
    /\ Len(ex.returned) = 2
    /\ Len(ex.page) = 3
    /\ \E i, j \in DOMAIN ex.page :
           /\ i # j
           /\ ex.page[i].link = LinkA /\ ex.page[j].link = LinkA
           /\ ex.page[i].matches # ex.page[j].matches
    /\ \A i \in DOMAIN ex.page : StartsWithHttp(ex.page[i].link)

\* C18 as stated: the first strategy whose container query matches wins; no later
\* strategy is queried and no record comes from a later strategy.
C18_FirstStrategyWins ==
    ex.pc = "done" =>
        \A k \in 1..Len(selector_sets) :
            (\E e \in 1..(k - 1) : ContainersOf(e) # <<>>) =>
                /\ ~Queried(k)
                /\ \A i \in DOMAIN ex.origin : ex.origin[i] # k

\* C18 amended: the strategies are queried in priority order, and a strategy is
\* queried exactly when the strategies before it accumulated fewer than limit
\* records; the records of an earlier strategy precede those of a later one.
C18_FallsThroughUntilLimit ==
    ex.pc = "done" =>
        /\ \A k \in 1..Len(selector_sets) : Queried(k) <=> AccumulatedBefore(k) < ex.limit
        /\ \A i, j \in DOMAIN ex.queried : i < j => ex.queried[i] < ex.queried[j]
        /\ \A i, j \in DOMAIN ex.origin : i < j => ex.origin[i] <= ex.origin[j]
C18_Witness ==
    /\ ex.pc = "done"
    /\ ex.limit = 2
    /\ ContainersOf(1) # <<>>
    /\ ex.origin = <<1, 2>>
    /\ ex.queried = <<1, 2>>

\* the events that may come right before event e in the log of one attempt
Predecessors(e) ==
    CASE e \in {"context", "load_failed", "new_context_failed", "new_page_failed"} ->
             {"launch"}
      [] e \in {"goto", "goto_failed"} -> {"context"}
      [] e \in {"gate_initial", "gate_initial_failed"} -> {"goto"}
      [] e \in {"find_box", "find_box_failed"} -> {"gate_initial"}
      [] e \in {"submit", "submit_failed"} -> {"find_box"}
      [] e \in {"gate_after", "gate_after_blocked", "gate_after_failed"} -> {"submit"}
      [] e \in {"verified", "wait_for_url_failed"} -> {"gate_after_blocked"}
      [] e \in {"check_results", "check_results_failed"} -> {"gate_after", "verified"}
      [] e \in {"extract", "extract_failed", "capture", "capture_failed"} ->
             {"check_results"}
      [] e \in {"persist_skipped", "write_state", "storage_state_failed"} ->
             {"extract", "capture"}
      [] e \in {"write_fingerprint", "write_fingerprint_failed"} -> {"write_state"}
OrderedEvents ==
    {"context", "load_failed", "new_context_failed", "new_page_failed", "goto", "goto_failed",
     "gate_initial", "gate_initial_failed", "find_box", "find_box_failed", "submit",
     "submit_failed", "gate_after", "gate_after_blocked", "gate_after_failed", "verified",
     "wait_for_url_failed", "check_results", "check_results_failed", "extract",
     "extract_failed", "capture", "capture_failed", "persist_skipped", "write_state",
     "storage_state_failed", "write_fingerprint", "write_fingerprint_failed"}
LaunchEvents == {"launch", "launch_failed"}

\* C23: the steps of an attempt run in the fixed order launch, context creation,
\* navigation, initial gate, search-box lookup, submission, gate after submission,
\* results check, extraction or capture, persistence, release: every step comes
\* right after the success of the step before it in the same attempt, and after
\* the release of an attempt only the launch of the next attempt can follow. The
\* log only grows within a run, so each event is examined in the state that records it.
C23_FixedStepOrder ==
    LET n == Len(log)
    IN  n > 0 =>
          LET e == log[n]
          IN  /\ e.ev \in OrderedEvents =>
                     /\ n > 1
                     /\ log[n - 1].iter = e.iter
                     /\ log[n - 1].ev \in Predecessors(e.ev)
              /\ e.ev \in LaunchEvents =>
                     \/ n = 1 /\ e.iter = 1
                     \/ /\ n > 1
                        /\ log[n - 1].ev = "close_browser"
                        /\ e.iter = log[n - 1].iter + 1
              /\ (n > 1 /\ log[n - 1].ev \in CloseEvents) =>
                     e.ev \in CloseEvents \cup LaunchEvents
C23_Witness ==
    /\ SuccessValue
    /\ Len(browsers) = 2
    /\ OccurredIn("gate_initial_failed", 1)
    /\ OccurredIn("verified", 2)
    /\ OccurredIn("write_fingerprint", 2)
    /\ browsers[2] = "closed"

\* C25: in headless mode a URL matching a challenge pattern at either gate fails
\* the attempt at once with a 'Human verification' error: the failure comes right
\* after the navigation or submission, and only the handler and the release follow
\* in that attempt. A gate is passed exactly on a URL matching no pattern, right
\* after the navigation or submission, and the wait is entered only in headed mode.
C25_HeadlessGateFailsAtOnce ==
    /\ LET n == Len(log)
       IN  n > 0 =>
             LET e == log[n]
             IN  /\ (e.ev \in GateFailures /\ e.headless) =>
                        /\ VerificationRelated(e.msg)
                        /\ log[n - 1].ev = (IF e.ev = "gate_initial_failed"
                                            THEN "goto" ELSE "submit")
                 /\ \/ e.ev \in {"except"} \cup CloseEvents
                    \/ \A i \in 1..(n - 1) :
                           ~(/\ log[i].ev \in GateFailures
                             /\ log[i].headless
                             /\ log[i].iter = e.iter)
                 /\ e.ev = "gate_initial" => log[n - 1].ev = "goto"
                 /\ e.ev = "gate_after" => log[n - 1].ev = "submit"
                 /\ e.ev = "gate_after_blocked" => ~e.headless
    /\ pc = "find_box" => ~MatchesSorry(page_url)
    /\ (pc = "check_results" /\ log[Len(log)].ev = "gate_after") => ~MatchesSorry(page_url)
C25_Witness ==
    /\ Finished
    /\ OccurredIn("gate_after_failed", 1)
    /\ OccurredIn("gate_after", 2)
    /\ page_url = UrlResults(saved_state.googleDomain)

OpenBrowsers == {i \in DOMAIN browsers : browsers[i] = "open"}
OpenContexts == {i \in DOMAIN contexts : contexts[i] = "open"}

\* C26: at every moment of a run at most one browser and at most one context are
\* open, an open context belongs to an open browser, and the browser of the second
\* attempt is launched only after the context and then the browser of the first
\* attempt were closed.
C26_OnePairAtATime ==
    /\ Cardinality(OpenBrowsers) <= 1
    /\ Cardinality(OpenContexts) <= 1
    /\ OpenContexts \subseteq OpenBrowsers
    /\ iter = 2 => browsers[1] = "closed" /\ contexts[1] = "closed"
    /\ LET n == Len(log)
       IN  (n > 0 /\ log[n].ev \in LaunchEvents /\ log[n].iter = 2) =>
               /\ n > 2
               /\ log[n - 1].ev = "close_browser" /\ log[n - 1].iter = 1
               /\ log[n - 2].ev = "close_context" /\ log[n - 2].iter = 1
C26_Witness ==
    /\ Len(browsers) = 2
    /\ browsers[1] = "closed" /\ contexts[1] = "closed"
    /\ browsers[2] = "open" /\ contexts[2] = "open"
    /\ pc = "submit"

\* C29: in a run that escalates, the headed second attempt navigates to the domain
\* of the headless first attempt and creates its context from the same fingerprint.
C29_StateCarriedAcrossRetry ==
    \A i, j \in DOMAIN log :
        (log[i].ev = log[j].ev /\ log[i].ev \in {"goto", "context"}) =>
            log[i].msg = log[j].msg

FailureEvents ==
    {"launch_failed", "load_failed", "new_context_failed", "new_page_failed", "goto_failed",
     "gate_initial_failed", "find_box_failed", "submit_failed", "gate_after_failed",
     "wait_for_url_failed", "check_results_failed", "extract_failed", "capture_failed",
     "storage_state_failed"}

\* C30: a run writes each profile file at most once, and only in an attempt whose
\* navigation, gates, results check and extraction or capture succeeded; an attempt
\* in which one of these steps failed writes neither file, and a run that returns
\* an error leaves both files as they were before the run.
C30_WritesOnlyAfterSuccess ==
    /\ LET n == Len(log)
       IN  n > 0 =>
             LET e == log[n]
             IN  /\ e.ev \in WriteEvents =>
                        /\ \A i \in 1..(n - 1) :
                               /\ log[i].ev # e.ev
                               /\ log[i].iter = e.iter => log[i].ev \notin FailureEvents
                        /\ \E i \in 1..(n - 1) : /\ log[i].ev \in {"extract", "capture"}
                                                 /\ log[i].iter = e.iter
                 /\ e.ev \in FailureEvents =>
                        \A i \in 1..(n - 1) :
                            log[i].iter = e.iter => log[i].ev \notin WriteEvents
    /\ Occurred("write_state") \/ disk = disk0
    /\ (outcome = "returned" /\ IsErrorValue(retval)) => disk = disk0
C30_Witness ==
    /\ ~args.no_save_state
    /\ outcome = "returned"
    /\ IsErrorValue(retval)
    /\ Len(browsers) = 2
    /\ OccurredIn("gate_after_failed", 1)
    /\ OccurredIn("check_results_failed", 2)

\* C28: a synthesized colorScheme is "dark" exactly when the hour h of the clock
\* satisfies h >= 19 or h < 7, and "light" for the hours 7..18, in both context
\* factories alike; when the hour ends between the two clock reads of search.py
\* the value is the one of the rule for one of the two hours; with a stored
\* fingerprint the clock has no effect and the stored colorScheme is kept.
C28_ColorSchemeRule ==
    (cf.pc = "call" /\ cf.searchDone /\ cf.utilsDone) =>
        LET first == cf.now[1]
            second == cf.now[2]
            search == cf.search.fingerprint.colorScheme
            utils == cf.utils.fingerprint.colorScheme
            Night(h) == h >= 19 \/ h < 7
        IN  IF cf.file.kind = "object"
            THEN /\ search = StoredFingerprint.colorScheme
                 /\ utils = StoredFingerprint.colorScheme
            ELSE /\ search \in {"dark", "light"}
                 /\ utils = "dark" <=> Night(first)
                 /\ first \in 7..18 => utils = "light"
                 /\ first = second =>
                        /\ search = "dark" <=> Night(first)
                        /\ first \in 7..18 => search = "light"
                        /\ search = utils
                 /\ first # second =>
                        \/ search = "dark" <=> Night(first)
                        \/ search = "dark" <=> Night(second)
C28_Witness ==
    /\ cf.pc = "call"
    /\ cf.searchDone /\ cf.utilsDone
    /\ cf.file.kind = "absent"
    /\ cf.now = <<19, 19>>
    /\ cf.search.fingerprint.colorScheme = "dark"
    /\ cf.utils.fingerprint.colorScheme = "dark"

\* the page fetch has ended; its navigation timed out; nothing but that failed
RenderFetched == rd.pc = "done"
GotoTimedOut == \E i \in 1..Len(rd.log) : rd.log[i] = "goto_timeout"
OnlyGotoTimedOut ==
    /\ GotoTimedOut
    /\ \A i \in 1..Len(rd.log) :
         rd.log[i] \notin {"fallback_failed", "close_failed"}

\* C21: a page fetch whose navigation times out still returns a Markdown document, the
\* one made of whatever the page held at the timeout; any other engine failure ends the
\* fetch with the RuntimeError "Failed to load page: <url>" that carries the engine
\* error as its cause, and what is returned is always the document of the content read.
C21_TimeoutFallsBack ==
    /\ \A i \in 1..Len(rd.log) :
         rd.log[i] = "goto_timeout" =>
            /\ rd.pc \in {"fallback", "finally", "convert", "wrap", "done"}
            /\ i < Len(rd.log) => rd.log[i + 1] \in {"fallback_content", "fallback_failed"}
    /\ RenderFetched =>
         /\ OnlyGotoTimedOut =>
              /\ rd.outcome = "returned"
              /\ rd.retval = Markdown(rd.content, rd.url)
              /\ rd.content \in {BlankContent, PartialContent}
         /\ rd.outcome = "returned" =>
              /\ rd.retval = Markdown(rd.content, rd.url)
              /\ rd.raised = NothingRaised
         /\ rd.outcome = "raised" =>
              /\ rd.raised = LoadPageError(rd.url, rd.exc)
              /\ rd.exc # NoEngineError
              /\ rd.exc # EngineError("goto", "TimeoutError")
              /\ rd.retval = NoResult
         /\ rd.outcome \in {"returned", "raised"}

C21_Witness ==
    /\ RenderFetched
    /\ OnlyGotoTimedOut
    /\ rd.outcome = "returned"
    /\ rd.retval = Markdown(PartialContent, rd.url)

\* the URL has the scheme http or https
IsHttpUrl(link) ==
    \E n \in 1..Len(link) :
        /\ link[n] = "://"
        /\ SubSeq(link, 1, n - 1) \in {<<"http">>, <<"http", "s">>}
\* the links of the returned records that come from strategies before k
SeenBefore(k) ==
    {ex.returned[i].link : i \in {n \in DOMAIN ex.returned : ex.origin[n] < k}}
\* the returned records that come from strategy k, in the order returned
RecordsOf(k) ==
    LET before == Cardinality({n \in DOMAIN ex.returned : ex.origin[n] < k})
        upto == Cardinality({n \in DOMAIN ex.returned : ex.origin[n] <= k})
    IN  SubSeq(ex.returned, before + 1, upto)
\* the containers of strategy k that qualify for a record, where Accepts says which
\* links do: a title with non-blank text, an accepted link seen neither in an earlier
\* strategy nor in an earlier qualifying container of this one
QualifyingContainers(k, Accepts(_)) ==
    LET C == ContainersOf(k)
        Basic(i) == /\ C[i].title.found
                    /\ Strip(C[i].title.text) # <<>>
                    /\ Accepts(C[i].link)
    IN  {i \in DOMAIN C :
            /\ Basic(i)
            /\ C[i].link \notin SeenBefore(k)
            /\ \A e \in 1..(i - 1) : Basic(e) => C[e].link # C[i].link}
\* the records of strategy k are those of its first qualifying containers, in
\* document order, as many as the limit leaves room for
RecordsAreQualifying(k, Accepts(_)) ==
    LET C == ContainersOf(k)
        V == QualifyingContainers(k, Accepts)
        room == ex.limit - AccumulatedBefore(k)
        n == IF Cardinality(V) < room THEN Cardinality(V) ELSE room
        Nth(m) == CHOOSE i \in V : Cardinality({e \in V : e < i}) = m - 1
        recs == RecordsOf(k)
    IN  /\ Len(recs) = n
        /\ \A m \in 1..n :
             LET container == C[Nth(m)]
             IN  /\ recs[m].title = Strip(container.title.text)
                 /\ recs[m].link = container.link
                 /\ recs[m].snippet =
                        IF container.snippet.found
                           /\ container.snippetSelector = selector_sets[k].snippet
                        THEN Strip(container.snippet.text)
                        ELSE <<>>

\* C24: within each strategy queried, the records returned by _extract_results are
\* exactly the containers, in document order, that have a title element with non-blank
\* trimmed text and an anchor whose URL is http or https and was not seen earlier in the
\* call, cut after limit records; every record has a non-empty title and an http(s)
\* link, and its snippet is empty when the container has no snippet element.
C24_RecordsAreValidContainers ==
    ex.pc = "done" =>
        /\ \A k \in 1..Len(selector_sets) : Queried(k) => RecordsAreQualifying(k, IsHttpUrl)
        /\ \A i \in DOMAIN ex.returned :
             /\ ex.returned[i].title # <<>>
             /\ IsHttpUrl(ex.returned[i].link)

\* the launches of a run that follow an escalation (the handler's `continue`)
Escalations == Cardinality({i \in DOMAIN log : log[i].ev \in LaunchEvents /\ log[i].iter > 1})

\* C27: when every browser operation eventually returns or fails, every run of either
\* operation eventually ends, with a value returned or an error raised, and at no time
\* has a run started more than two attempts: the escalation is taken at most once.
C27_EveryRunTerminates ==
    /\ <>Finished
    /\ [](Escalations <= 1 /\ iter <= 2)
    /\ [](Finished => outcome \in {"returned", "raised"})
C27_Witness ==
    /\ Finished
    /\ iter = 2
    /\ Escalations = 1
    /\ OccurredIn("gate_after_blocked", 2)
    /\ OccurredIn("wait_for_url_failed", 2)

\* the events of a page fetch
RenderOccurred(e) == \E i \in 1..Len(rd.log) : rd.log[i] = e
\* the exit paths of _render_page_html on which a browser was launched and close()
\* itself, where it is called, does not fail
RenderExitPaths == {"content", "fallback_content", "goto_failed", "content_failed",
                    "fallback_failed", "new_page_failed"}

\* C31: the browser launched by _render_page_html is closed on every exit path: normal
\* return, load timeout with fallback content, a navigation error that is no timeout, a
\* failure of the fallback content read, and a failure to open the page.
C31_BrowserClosedOnEveryPath ==
    (/\ RenderFetched
     /\ RenderOccurred("launch")
     /\ ~RenderOccurred("close_failed")
     /\ \E e \in RenderExitPaths : RenderOccurred(e))
        => rd.browser = "closed"

====
